---- MODULE Spec2Model ----
(***************************************************************************)
(* The CampuSysV2 service worker (the offline cache gateway): install,     *)
(* activate, fetch routing over the two cache tiers, and the message       *)
(* commands.  Promise chains are split at their suspension points; the     *)
(* platform's CacheStorage / Cache / fetch behave as the Service Worker    *)
(* and Fetch standards define them.  Background sync, notification clicks *)
(* and the page's login rate limiter (security.js) have specifications of  *)
(* their own over the same variables.                                      *)
(***************************************************************************)
EXTENDS Integers, Sequences, FiniteSets, TLC

\* ---------------------------------------------------------------- bounds
MaxInFlight == 1     \* promise chains pending when a new event is taken
MaxOrphans  == 1     \* deleted Cache objects still held by a pending chain
MaxOutbox   == 3     \* Outbox Items queued when a sync event arrives
MaxWindows  == 3     \* window clients of the app open at once
MaxRace     == 2     \* promise chains pending at once when fetches race
MaxClock    == 5     \* the latest reading of the page's clock

\* ------------------------------------------------------------- constants
CACHE_NAME      == "campusysv2-v1.0.0"
DATA_CACHE_NAME == "campusysv2-data-v1.0.0"

ALL_FILES_TO_CACHE ==
  << "/", "/index.html", "/login.html", "/registration.html",
     "/resources.html", "/account.html", "/notification.html",
     "/styles.css", "/css/login.css", "/css/analytics.css",
     "/JavaScript/security.js", "/JavaScript/auth.js",
     "/JavaScript/analytics.js", "/JavaScript/workflow.js",
     "/JavaScript/resource-manager.js", "/JavaScript/two-factor-auth.js",
     "/JavaScript/homepage.js", "/JavaScript/resources.js",
     "/JavaScript/account.js", "/JavaScript/notification.js",
     "/res/material.cyan-light_blue.min.css", "/images/user.jpg",
     "/images/android-desktop.png", "/images/ios-desktop.png",
     "/images/favicon.png", "/manifest.json" >>

\* The model pre-caches the two leading entries: the root and the shell.
FILES_TO_CACHE == SubSeq(ALL_FILES_TO_CACHE, 1, 2)

API_CACHE_URLS ==
  << "https://www.gstatic.com/firebasejs/",
     "https://fonts.googleapis.com/",
     "https://fonts.gstatic.com/",
     "https://cdn.jsdelivr.net/npm/chart.js",
     "https://cdn.jsdelivr.net/npm/sweetalert2@11",
     "https://code.getmdl.io/1.3.0/material.min.js" >>

\* -------------------------------------------------- environment: the host
Origin == "https://campus.example"          \* self.location.origin
OldCacheNames == {"campusysv2-v0.9.0", "campusysv2-data-v0.9.0"}
CacheNames == {CACHE_NAME, DATA_CACHE_NAME} \cup OldCacheNames

\* String.prototype.includes
Includes(s, t) ==
  \E i \in 1..(Len(s) - Len(t) + 1) : SubSeq(s, i, i + Len(t) - 1) = t

\* A relative URL is resolved against the worker's origin; an absolute one
\* is kept (new Request(url), as cache.addAll / cache.match / cache.put do).
Resolve(u) == IF Includes(u, "://") THEN u ELSE Origin \o u

SameOrigin(u) == Len(u) >= Len(Origin) /\ SubSeq(u, 1, Len(Origin)) = Origin

\* The requests the page issues in the model.
Requests ==
  { [url |-> Origin \o "/index.html",           method |-> "GET",  destination |-> "document"],
    [url |-> Origin \o "/some/deep/route",      method |-> "GET",  destination |-> "document"],
    [url |-> Origin \o "/some/deep/route",      method |-> "GET",  destination |-> ""],
    [url |-> Origin \o "/api/v1/ping",          method |-> "GET",  destination |-> ""],
    [url |-> Origin \o "/api/v1/ping",          method |-> "POST", destination |-> ""],
    [url |-> "https://fonts.googleapis.com/css", method |-> "GET", destination |-> "style"] }

SeqRange(s) == { s[i] : i \in 1..Len(s) }

ManifestKeys == { Resolve(f) : f \in SeqRange(FILES_TO_CACHE) }
Keys == ManifestKeys \cup { r.url : r \in Requests }

\* ------------------------------------------------------------- responses
Undefined == [undefined |-> TRUE]

StatusText(s) ==
  CASE s = 200 -> "OK"
    [] s = 204 -> "No Content"
    [] s = 404 -> "Not Found"
    [] OTHER   -> ""

\* The bodies a server may send for one URL: an older and a newer one.
Bodies == {"body1", "body2"}

Response(s, t, b) == [status |-> s, statusText |-> StatusText(s), type |-> t, body |-> b]

\* The shell document and the API payload change over time; the other
\* resources of the model have one body.
Versioned(u) == Includes(u, "/index.html") \/ Includes(u, "/api/")
BodiesOf(u) == IF Versioned(u) THEN Bodies ELSE {"body1"}

\* What fetch() can resolve with.  A same-origin resource answers with a
\* 'basic' response: 200 with a body, 204 with none, or the 404 page.
\* A cross-origin one answers with a 'cors' response or, in no-cors mode,
\* with an 'opaque' one (status 0, nothing readable).
NetResponses(u) ==
  IF SameOrigin(u)
    THEN { Response(200, "basic", b) : b \in BodiesOf(u) }
         \cup { Response(204, "basic", ""), Response(404, "basic", "Not Found") }
    ELSE { Response(200, "cors", b) : b \in BodiesOf(u) } \cup { Response(0, "opaque", "") }

Rejected == [rejected |-> TRUE]
NetOutcomes(u) == NetResponses(u) \cup {Rejected}

\* new Response('Offline', {status: 503, statusText: 'Service Unavailable'})
OfflineResponse ==
  [status |-> 503, statusText |-> "Service Unavailable", type |-> "default", body |-> "Offline"]

\* Response.ok
Ok(r) == r.status >= 200 /\ r.status <= 299

\* ------------------------------------------------------------ the state
VARIABLES
  state,          \* ServiceWorker.state of this version
  skipWaitingFlag,\* set by self.skipWaiting()
  caches,         \* CacheStorage: tier name -> Cache object id, 0 if none
  store,          \* Cache object id -> (request URL -> stored response)
  install,        \* the install handler's promise chain
  activate,       \* the activate handler's promise chain
  handler,        \* the fetch handler's promise chain
  puts,           \* cache.put calls started and not yet completed
  update,         \* updateCache() in flight
  clear,          \* clearCache() in flight
  outbox,         \* the durable queue of Outbox Items
  sync,           \* backgroundSync() in flight, and how its promise settled
  windows,        \* the URLs of the app's window clients, oldest first
  focused,        \* the index of the focused window client, 0 if none
  click,          \* the notificationclick handler's promise chain
  rateLimitMap,   \* SecurityManager: rate-limit key -> {attempts, lastAttempt}
  now,            \* Date.now() of the page
  rateLimit       \* what the last checkRateLimit call returned

cacheVars == <<state, skipWaitingFlag, caches, store, install, activate, handler, puts, update, clear>>
syncVars == <<outbox, sync>>
clickVars == <<windows, focused, click>>
rateVars == <<rateLimitMap, now, rateLimit>>
eventVars == <<syncVars, clickVars, rateVars>>
vars == <<cacheVars, eventVars>>

\* Each tier name has the id of the Cache object bound to it; the ids above
\* are for Cache objects deleted while a pending promise chain holds them.
Home(name) ==
  CASE name = CACHE_NAME -> 1
    [] name = DATA_CACHE_NAME -> 2
    [] name = "campusysv2-v0.9.0" -> 3
    [] OTHER -> 4
CacheIds == 1..(4 + MaxOrphans)
OrphanIds == 5..(4 + MaxOrphans)
EmptyCache == [k \in Keys |-> Undefined]

IdleHandler == [pc |-> "idle"]
IdleTask == [pc |-> "idle"]

\* The fetch handler uses its Cache object until it has responded.
Uses(hd) == hd.pc \in {"match", "fetch", "shell", "fallback"}

\* Cache objects that a pending promise chain holds a reference to.
HeldByChains ==
  (IF install.pc = "addAll" THEN {install.cache} ELSE {})
  \cup (IF update.pc = "addAll" THEN {update.cache} ELSE {})
  \cup (IF Uses(handler) THEN {handler.cache} ELSE {})
  \cup { p.cache : p \in puts }

\* Cache objects still reachable: through a tier name or through a chain.
Held == { caches[n] : n \in CacheNames } \cup HeldByChains

\* A Cache object nothing refers to any more is gone.
Collect(st) == [i \in CacheIds |-> IF i \in Held' THEN st[i] ELSE EmptyCache]

\* Promise chains pending: fetch handlings, detached writes, message work.
InFlight ==
  (IF handler.pc = "idle" THEN 0 ELSE 1)
  + Cardinality(puts)
  + (IF update.pc = "idle" THEN 0 ELSE 1)
  + (IF clear.pc \in {"idle", "done"} THEN 0 ELSE 1)

\* caches.open(name): the tier's Cache object, created empty when absent.
OpenId(name) == Home(name)
Opened(name) == [caches EXCEPT ![name] = OpenId(name)]

\* caches.delete(name) resolves: the name is unbound.  A Cache object that
\* a pending chain holds lives on for that chain, apart from the tier name:
\* it becomes the orphan o and the chains' references follow it.
FreeOrphans == OrphanIds \ HeldByChains
CanDelete(name) == caches[name] \in HeldByChains => FreeOrphans # {}
Moved(c, id, o) == IF c = id THEN o ELSE c
Delete(name) ==
  LET id == caches[name] IN
  /\ caches' = [caches EXCEPT ![name] = 0]
  /\ IF id \in HeldByChains
       THEN LET o == CHOOSE i \in FreeOrphans : \A j \in FreeOrphans : i <= j IN
            /\ handler' = IF handler.pc = "idle" THEN handler
                           ELSE [handler EXCEPT !.cache = Moved(@, id, o)]
            /\ puts' = { [p EXCEPT !.cache = Moved(@, id, o)] : p \in puts }
            /\ update' = IF update.pc = "addAll"
                           THEN [update EXCEPT !.cache = Moved(@, id, o)] ELSE update
            /\ store' = [store EXCEPT ![o] = store[id], ![id] = EmptyCache]
       ELSE /\ UNCHANGED <<handler, puts, update>>
            /\ store' = [i \in CacheIds |-> IF i = id THEN EmptyCache ELSE store[i]]

\* The names bound in a CacheStorage c.
KeysOf(c) == { n \in CacheNames : c[n] # 0 }

\* caches.keys()
ExistingNames == KeysOf(caches)

\* cache.match(request): only a GET request matches, by its URL.
Match(id, req) ==
  IF req.method = "GET" THEN store[id][req.url] ELSE Undefined

\* A variant that takes every settled fetch, whatever its status.
AddAllOkNoStatus(out) ==
  \A k \in ManifestKeys : out[k] # Rejected

\* cache.addAll(urls) fetches every URL.  It rejects, storing nothing, when
\* a fetch is rejected or a response is not ok; else it stores all at once.
AddAllOk(out) ==
  \A k \in ManifestKeys : out[k] # Rejected /\ Ok(out[k])

\* A variant that stores the root document only.
AddAllRootOnly(st, id, out) ==
  [st EXCEPT ![id] = [@ EXCEPT ![Resolve("/")] = out[Resolve("/")]]]

\* cache.addAll's write: every fetched response, each under its URL.
AddAll(st, id, out) ==
  [st EXCEPT ![id] = [k \in Keys |-> IF k \in ManifestKeys THEN out[k] ELSE @[k]]]

\* The network's answers to the fetches of one cache.addAll(FILES_TO_CACHE).
ManifestNet == [k \in ManifestKeys |-> NetOutcomes(k)]
ManifestOutcomes ==
  { out \in [ManifestKeys -> UNION { ManifestNet[k] : k \in ManifestKeys }] :
      \A k \in ManifestKeys : out[k] \in ManifestNet[k] }

\* self.skipWaiting(): the skip-waiting flag is set.
SkipWaiting(flag) == TRUE

\* --------------------------------------------------- the page's limiter
\* SecurityManager's constructor.  Time is counted in units of 5 minutes:
\* lockoutTime = 15 * 60 * 1000 ms is 3 units.
maxAttempts == 5
lockoutTime == 3

\* The sanitized e-mail addresses that login is called with, and the
\* actions it and its siblings pass.
Emails == {"ann@campus.example", "bob@campus.example"}
RateActions == {"login"}

\* `${identifier}_${action}`
RateKey(identifier, action) == identifier \o "_" \o action
RateKeys == { RateKey(i, a) : i \in Emails, a \in RateActions }

NoRecord == [none |-> TRUE]
NoResult == [none |-> TRUE]
NewLimiter == [k \in RateKeys |-> NoRecord]

\* ----------------------------------------------------------------- Init
\* Before the first event: the worker script has been parsed; the origin's
\* CacheStorage may hold tiers of an earlier version.
StaleResponse == Response(200, "basic", "body1")

CacheInit ==
  /\ state = "parsed"
  /\ skipWaitingFlag = FALSE
  /\ \E old \in SUBSET OldCacheNames :
       /\ caches = [n \in CacheNames |-> IF n \in old THEN Home(n) ELSE 0]
       /\ store = [i \in CacheIds |->
                     IF \E n \in old : Home(n) = i
                       THEN [EmptyCache EXCEPT ![Origin \o "/index.html"] = StaleResponse]
                       ELSE EmptyCache]
  /\ install = IdleTask
  /\ activate = IdleTask
  /\ handler = IdleHandler
  /\ puts = {}
  /\ update = IdleTask
  /\ clear = IdleTask

\* The page has loaded security.js: new SecurityManager().
PageLoaded ==
  /\ rateLimitMap = NewLimiter
  /\ now = 0
  /\ rateLimit = NoResult

\* The reference worker has no durable storage: its outbox is empty.
Init ==
  /\ CacheInit
  /\ outbox = << >>
  /\ sync = IdleTask
  /\ windows = << >>
  /\ focused = 0
  /\ click = IdleTask
  /\ PageLoaded

\* -------------------------------------------------------------- install
\* 'install' event: caches.open(CACHE_NAME) is called, then self.skipWaiting().
InstallEvent ==
  /\ state = "parsed"
  /\ state' = "installing"
  /\ install' = [pc |-> "open"]
  /\ skipWaitingFlag' = SkipWaiting(skipWaitingFlag)
  /\ UNCHANGED <<caches, store, activate, handler, puts, update, clear>>
  /\ UNCHANGED eventVars

InstallOpen ==
  /\ install.pc = "open"
  /\ caches' = Opened(CACHE_NAME)
  /\ install' = [pc |-> "addAll", cache |-> OpenId(CACHE_NAME)]
  /\ UNCHANGED <<state, skipWaitingFlag, store, activate, handler, puts, update, clear>>
  /\ UNCHANGED eventVars

\* A fetch that cache.addAll counts as failed.
FetchFailed(o) == o = Rejected \/ o.status < 200 \/ o.status > 299

\* cache.addAll(FILES_TO_CACHE) settles and with it the promise handed to
\* evt.waitUntil: fulfilled, the worker is installed; rejected, redundant.
InstallAddAll ==
  /\ install.pc = "addAll"
  /\ \E out \in ManifestOutcomes :
       /\ install' = [pc |-> "done", failed |-> \E k \in ManifestKeys : FetchFailed(out[k])]
       /\ state' = IF AddAllOk(out) THEN "installed" ELSE "redundant"
       /\ UNCHANGED <<skipWaitingFlag, caches, activate, handler, puts, update, clear>>
       /\ store' = Collect(IF AddAllOk(out) THEN AddAll(store, install.cache, out) ELSE store)
  /\ UNCHANGED eventVars

\* ------------------------------------------------------------- activate
\* 'activate' event: caches.keys() is called, then self.clients.claim().
\* The installed worker is activated once the skip-waiting flag is set.
ActivateEvent ==
  /\ state = "installed"
  /\ skipWaitingFlag
  /\ state' = "activating"
  /\ activate' = [pc |-> "keys"]
  /\ UNCHANGED <<skipWaitingFlag, caches, store, install, handler, puts, update, clear>>
  /\ UNCHANGED eventVars

\* A variant with || for &&: every key passes.
StaleOr(key) == key # CACHE_NAME \/ key # DATA_CACHE_NAME

\* A variant that spares the data tier only.
StaleNotData(key) == key # DATA_CACHE_NAME

\* The test of the activate handler: key is a stale tier's name.
Stale(key) == key # CACHE_NAME /\ key # DATA_CACHE_NAME

\* A variant that opens the Data Tier while it lists the tiers.
ActivateKeysOpening ==
  /\ activate.pc = "keys"
  /\ activate' = [pc |-> "delete",
                  keyList |-> ExistingNames,
                  todo |-> { key \in ExistingNames : Stale(key) }]
  /\ caches' = Opened(DATA_CACHE_NAME)
  /\ UNCHANGED <<state, skipWaitingFlag, store, install, handler, puts, update, clear>>
  /\ UNCHANGED eventVars

\* caches.keys() resolves: keyList.map starts a caches.delete for every
\* stale key.
ActivateKeys ==
  /\ activate.pc = "keys"
  /\ activate' = [pc |-> "delete",
                  keyList |-> ExistingNames,
                  todo |-> { key \in ExistingNames : Stale(key) }]
  /\ UNCHANGED <<state, skipWaitingFlag, caches, store, install, handler, puts, update, clear>>
  /\ UNCHANGED eventVars

ActivateDelete ==
  /\ activate.pc = "delete"
  /\ \E key \in activate.todo :
       /\ CanDelete(key)
       /\ Delete(key)
       /\ activate' = [activate EXCEPT !.todo = @ \ {key}]
  /\ UNCHANGED <<state, skipWaitingFlag, install, clear>>
  /\ UNCHANGED eventVars

\* Promise.all settles: the worker is activated.
ActivateDone ==
  /\ activate.pc = "delete"
  /\ activate.todo = {}
  /\ state' = "activated"
  /\ activate' = [pc |-> "done"]
  /\ UNCHANGED <<skipWaitingFlag, caches, store, install, handler, puts, update, clear>>
  /\ UNCHANGED eventVars

\* ---------------------------------------------------------------- fetch
IsApi(req) == Includes(req.url, "/api/")

\* A variant with one tier for every request.
FetchEventOneTier(req, limit) ==
  /\ state = "activated"
  /\ InFlight < limit
  /\ handler.pc = "idle"
  /\ handler' =
       [pc |-> "open", req |-> req, tier |-> CACHE_NAME,
        cache |-> 0, hit |-> FALSE, net |-> "none", result |-> Undefined]
  /\ UNCHANGED <<state, skipWaitingFlag, caches, store, install, activate, puts, update, clear>>
  /\ UNCHANGED eventVars

\* 'fetch' event: dispatched to the activated worker; the handler picks the
\* tier by the URL and calls caches.open.
FetchEventWithin(req, limit) ==
  /\ state = "activated"
  /\ InFlight < limit
  /\ handler.pc = "idle"
  /\ handler' =
       [pc |-> "open", req |-> req,
        tier |-> IF IsApi(req) THEN DATA_CACHE_NAME ELSE CACHE_NAME,
        cache |-> 0, hit |-> FALSE, net |-> "none", result |-> Undefined]
  /\ UNCHANGED <<state, skipWaitingFlag, caches, store, install, activate, puts, update, clear>>
  /\ UNCHANGED eventVars

FetchEvent(req) == FetchEventWithin(req, MaxInFlight)

\* A variant whose static branch issues the network call along with the
\* lookup.
FetchOpenSpeculative ==
  /\ handler.pc = "open"
  /\ caches' = Opened(handler.tier)
  /\ handler' =
       [handler EXCEPT !.cache = OpenId(handler.tier),
                       !.pc = IF IsApi(handler.req) THEN "fetch" ELSE "match",
                       !.net = "pending"]
  /\ UNCHANGED <<state, skipWaitingFlag, store, install, activate, puts, update, clear>>
  /\ UNCHANGED eventVars

\* caches.open resolves.  The API branch issues fetch(evt.request) at once,
\* the static branch cache.match(evt.request).
FetchOpen ==
  /\ handler.pc = "open"
  /\ caches' = Opened(handler.tier)
  /\ handler' =
       [handler EXCEPT !.cache = OpenId(handler.tier),
                       !.pc = IF IsApi(handler.req) THEN "fetch" ELSE "match",
                       !.net = IF IsApi(handler.req) THEN "pending" ELSE "none"]
  /\ UNCHANGED <<state, skipWaitingFlag, store, install, activate, puts, update, clear>>
  /\ UNCHANGED eventVars

\* evt.respondWith's promise resolves with r.
Respond(hd, r, netState) ==
  [hd EXCEPT !.pc = "responded", !.result = r, !.net = netState]

\* cache.put(request, response) on Cache object id: it rejects for a request
\* that is not a GET; otherwise the write is pending until it completes.
Put(id, method, key, r) ==
  IF method = "GET" THEN {[cache |-> id, key |-> key, resp |-> r]} ELSE {}

\* A stale-if-error variant: a resolved response that is not a 200 is
\* dropped for the cached entry.
ApiFetchStaleIfError ==
  LET hd == handler IN
  /\ hd.pc = "fetch" /\ IsApi(hd.req)
  /\ \E out \in NetOutcomes(hd.req.url) :
       IF out = Rejected
         THEN /\ handler' = [hd EXCEPT !.pc = "fallback", !.net = "rejected"]
              /\ puts' = puts
         ELSE IF out.status = 200
           THEN /\ handler' = Respond(hd, out, "resolved")
                /\ puts' = puts \cup Put(hd.cache, "GET", hd.req.url, out)
           ELSE /\ handler' = [hd EXCEPT !.pc = "fallback", !.net = "resolved"]
                /\ puts' = puts
  /\ UNCHANGED <<state, skipWaitingFlag, caches, install, activate, update, clear>>
  /\ store' = Collect(store)
  /\ UNCHANGED eventVars

\* A variant that puts under evt.request instead of evt.request.url.
ApiFetchByRequest ==
  LET hd == handler IN
  /\ hd.pc = "fetch" /\ IsApi(hd.req)
  /\ \E out \in NetOutcomes(hd.req.url) :
       IF out = Rejected
         THEN /\ handler' = [hd EXCEPT !.pc = "fallback", !.net = "rejected"]
              /\ puts' = puts
         ELSE /\ handler' = Respond(hd, out, "resolved")
              /\ puts' = IF out.status = 200
                           THEN puts \cup Put(hd.cache, hd.req.method, hd.req.url, out)
                           ELSE puts
  /\ UNCHANGED <<state, skipWaitingFlag, caches, install, activate, update, clear>>
  /\ store' = Collect(store)
  /\ UNCHANGED eventVars

\* API branch: fetch(evt.request) settles.  A 200 response is put under
\* evt.request.url, a string, hence as a GET request.
ApiFetch ==
  LET hd == handler IN
  /\ hd.pc = "fetch" /\ IsApi(hd.req)
  /\ \E out \in NetOutcomes(hd.req.url) :
       IF out = Rejected
         THEN /\ handler' = [hd EXCEPT !.pc = "fallback", !.net = "rejected"]
              /\ puts' = puts
         ELSE /\ handler' = Respond(hd, out, "resolved")
              /\ puts' = IF out.status = 200
                           THEN puts \cup Put(hd.cache, "GET", hd.req.url, out)
                           ELSE puts
  /\ UNCHANGED <<state, skipWaitingFlag, caches, install, activate, update, clear>>
  /\ store' = Collect(store)
  /\ UNCHANGED eventVars

\* API branch, catch: cache.match(evt.request) resolves.
ApiFallback ==
  LET hd == handler IN
  /\ hd.pc = "fallback"
  /\ handler' = Respond(hd, Match(hd.cache, hd.req), "rejected")
  /\ UNCHANGED <<state, skipWaitingFlag, caches, install, activate, puts, update, clear>>
  /\ store' = Collect(store)
  /\ UNCHANGED eventVars

\* A network-first variant: the lookup's result is dropped.
StaticMatchNetworkFirst ==
  /\ handler.pc = "match"
  /\ handler' = [handler EXCEPT !.pc = "fetch", !.net = "pending"]
  /\ UNCHANGED <<state, skipWaitingFlag, caches, install, activate, puts, update, clear>>
  /\ store' = Collect(store)
  /\ UNCHANGED eventVars

\* Static branch: cache.match(evt.request) resolves; a hit is returned, a
\* miss issues fetch(evt.request).
StaticMatch ==
  LET hd == handler
      response == Match(hd.cache, hd.req) IN
  /\ hd.pc = "match"
  /\ handler' =
       IF response # Undefined
         THEN [Respond(hd, response, "none") EXCEPT !.hit = TRUE]
         ELSE [hd EXCEPT !.pc = "fetch", !.net = "pending"]
  /\ UNCHANGED <<state, skipWaitingFlag, caches, install, activate, puts, update, clear>>
  /\ store' = Collect(store)
  /\ UNCHANGED eventVars

ShouldCache(url) ==
  \/ \E i \in 1..Len(FILES_TO_CACHE) : Includes(url, FILES_TO_CACHE[i])
  \/ \E i \in 1..Len(API_CACHE_URLS) : Includes(url, API_CACHE_URLS[i])

\* The response is passed through without being cached.
NotValid(response) == response.status # 200 \/ response.type # "basic"

\* A variant with the test negated.
IsDocumentInverted(req) == req.destination # "document"

\* The test of the static branch's catch: the request is a navigation.
IsDocument(req) == req.destination = "document"

\* Static branch: fetch(evt.request) settles.
StaticFetch ==
  LET hd == handler IN
  /\ hd.pc = "fetch" /\ ~IsApi(hd.req)
  /\ \E out \in NetOutcomes(hd.req.url) :
       IF out = Rejected
         THEN /\ handler' =
                   IF IsDocument(hd.req)
                     THEN [hd EXCEPT !.pc = "shell", !.net = "rejected"]
                     ELSE Respond(hd, OfflineResponse, "rejected")
              /\ puts' = puts
         ELSE /\ handler' = Respond(hd, out, "resolved")
              /\ puts' = IF ~NotValid(out) /\ ShouldCache(hd.req.url)
                           THEN puts \cup Put(hd.cache, hd.req.method, hd.req.url, out)
                           ELSE puts
  /\ UNCHANGED <<state, skipWaitingFlag, caches, install, activate, update, clear>>
  /\ store' = Collect(store)
  /\ UNCHANGED eventVars

\* A variant that looks the root document up.
ShellRequestRoot == [url |-> Resolve("/"), method |-> "GET", destination |-> ""]

\* The request that cache.match('/index.html') looks up.
ShellRequest == [url |-> Resolve("/index.html"), method |-> "GET", destination |-> ""]

\* Static branch, catch for a document: cache.match('/index.html') resolves.
ShellMatch ==
  LET hd == handler IN
  /\ hd.pc = "shell"
  /\ handler' = Respond(hd, Match(hd.cache, ShellRequest), "rejected")
  /\ UNCHANGED <<state, skipWaitingFlag, caches, install, activate, puts, update, clear>>
  /\ store' = Collect(store)
  /\ UNCHANGED eventVars

\* A variant of cache.put that keeps the entry a key already has.
PutCompleteKeepFirst(p) ==
  /\ p \in puts
  /\ puts' = puts \ {p}
  /\ UNCHANGED <<state, skipWaitingFlag, caches, install, activate, handler, update, clear>>
  /\ store' = Collect(IF store[p.cache][p.key] = Undefined
                        THEN [store EXCEPT ![p.cache][p.key] = p.resp] ELSE store)
  /\ UNCHANGED eventVars

\* A cache.put that a handler started, and did not wait for, completes:
\* the entry under the key is replaced by the response, as a whole.
PutComplete(p) ==
  /\ p \in puts
  /\ puts' = puts \ {p}
  /\ UNCHANGED <<state, skipWaitingFlag, caches, install, activate, handler, update, clear>>
  /\ store' = Collect([store EXCEPT ![p.cache][p.key] = p.resp])
  /\ UNCHANGED eventVars

\* The caller has its response; the fetch event is over.
FetchEnd ==
  /\ handler.pc = "responded"
  /\ handler' = IdleHandler
  /\ UNCHANGED <<state, skipWaitingFlag, caches, store, install, activate, puts, update, clear>>
  /\ UNCHANGED eventVars

\* -------------------------------------------------------------- message
\* The page messages the waiting or the active worker.
Messageable == state \in {"installed", "activating", "activated"}

\* {type: 'SKIP_WAITING'}
MessageSkipWaiting ==
  /\ Messageable
  /\ skipWaitingFlag' = SkipWaiting(skipWaitingFlag)
  /\ UNCHANGED <<state, caches, store, install, activate, handler, puts, update, clear>>
  /\ UNCHANGED eventVars

\* {type: 'UPDATE_CACHE'}: updateCache() runs up to its first await.
MessageUpdateCache ==
  /\ Messageable
  /\ InFlight < MaxInFlight
  /\ update.pc = "idle"
  /\ update' = [pc |-> "open"]
  /\ UNCHANGED <<state, skipWaitingFlag, caches, store, install, activate, handler, puts, clear>>
  /\ UNCHANGED eventVars

UpdateOpen ==
  /\ update.pc = "open"
  /\ caches' = Opened(CACHE_NAME)
  /\ update' = [pc |-> "addAll", cache |-> OpenId(CACHE_NAME)]
  /\ UNCHANGED <<state, skipWaitingFlag, store, install, activate, handler, puts, clear>>
  /\ UNCHANGED eventVars

\* A variant that keeps every response that is ok, one cache.add per URL.
UpdateAddAllEach ==
  /\ update.pc = "addAll"
  /\ update' = IdleTask
  /\ UNCHANGED <<state, skipWaitingFlag, caches, install, activate, handler, puts, clear>>
  /\ \E out \in ManifestOutcomes :
       store' = Collect([store EXCEPT ![update.cache] =
                  [k \in Keys |-> IF k \in ManifestKeys /\ ~FetchFailed(out[k])
                                    THEN out[k] ELSE @[k]]])
  /\ UNCHANGED eventVars

\* cache.addAll(FILES_TO_CACHE) settles; a rejection is caught and logged.
UpdateAddAll ==
  /\ update.pc = "addAll"
  /\ update' = IdleTask
  /\ UNCHANGED <<state, skipWaitingFlag, caches, install, activate, handler, puts, clear>>
  /\ \E out \in ManifestOutcomes :
       store' = Collect(IF AddAllOk(out) THEN AddAll(store, update.cache, out) ELSE store)
  /\ UNCHANGED eventVars

\* {type: 'CLEAR_CACHE'}: clearCache() runs up to its first await.
MessageClearCache ==
  /\ Messageable
  /\ InFlight < MaxInFlight
  /\ clear.pc \in {"idle", "done"}
  /\ clear' = [pc |-> "keys"]
  /\ UNCHANGED <<state, skipWaitingFlag, caches, store, install, activate, handler, puts, update>>
  /\ UNCHANGED eventVars

\* A variant that deletes cacheNames[0] only.
ClearTargetsFirst(cacheNames) ==
  IF cacheNames = {} THEN {} ELSE { CHOOSE n \in cacheNames : \A m \in cacheNames : Home(n) <= Home(m) }

\* cacheNames.map(cacheName => caches.delete(cacheName)): the names that
\* clearCache deletes, out of those caches.keys() resolved with.
ClearTargets(cacheNames) == cacheNames

\* A variant that spares the tiers of the current version.
ClearKeysStaleOnly ==
  /\ clear.pc = "keys"
  /\ clear' = [pc |-> "delete", todo |-> { n \in ExistingNames : Stale(n) }]
  /\ UNCHANGED <<state, skipWaitingFlag, caches, store, install, activate, handler, puts, update>>
  /\ UNCHANGED eventVars

\* caches.keys() resolves: a caches.delete is started for every name.
ClearKeys ==
  /\ clear.pc = "keys"
  /\ clear' = [pc |-> "delete", todo |-> ClearTargets(ExistingNames)]
  /\ UNCHANGED <<state, skipWaitingFlag, caches, store, install, activate, handler, puts, update>>
  /\ UNCHANGED eventVars

ClearDelete ==
  /\ clear.pc = "delete"
  /\ \E cacheName \in clear.todo :
       /\ CanDelete(cacheName)
       /\ Delete(cacheName)
       /\ clear' = [clear EXCEPT !.todo = @ \ {cacheName}]
  /\ UNCHANGED <<state, skipWaitingFlag, install, activate>>
  /\ UNCHANGED eventVars

\* Promise.all settles; clearCache() has run (at least) once.
ClearDone ==
  /\ clear.pc = "delete"
  /\ clear.todo = {}
  /\ clear' = [pc |-> "done"]
  /\ UNCHANGED <<state, skipWaitingFlag, caches, store, install, activate, handler, puts, update>>
  /\ UNCHANGED eventVars

\* evt.data of the messages a page posts: nothing, one of the three
\* commands, a type the worker does not know, an object without a type.
NoData == [none |-> TRUE]
MessageTypes == {"SKIP_WAITING", "UPDATE_CACHE", "CLEAR_CACHE"}
MessageData ==
  { NoData, [text |-> "CLEAR_CACHE"], [type |-> "PING"] }
  \cup { [type |-> t] : t \in MessageTypes }

\* A variant that takes a message of another type for a CLEAR_CACHE.
HasTypeOrDefault(data, type) ==
  /\ data # NoData
  /\ "type" \in DOMAIN data
  /\ data.type = type \/ (type = "CLEAR_CACHE" /\ data.type \notin MessageTypes)

\* evt.data && evt.data.type === type
HasType(data, type) ==
  /\ data # NoData
  /\ "type" \in DOMAIN data
  /\ data.type = type

\* 'message' event: each of the three tests starts its command; a message
\* that passes none of them is logged and nothing else.
MessageEvent(data) ==
  \/ HasType(data, "SKIP_WAITING") /\ MessageSkipWaiting
  \/ HasType(data, "UPDATE_CACHE") /\ MessageUpdateCache
  \/ HasType(data, "CLEAR_CACHE") /\ MessageClearCache
  \/ /\ \A t \in MessageTypes : ~HasType(data, t)
     /\ Messageable
     /\ UNCHANGED vars


\* ----------------------------------------------------------------- sync
\* Outbox Items {url, method, headers, body}: mutations queued while offline.
OutboxItems ==
  { [url |-> "/api/v1/notes",   method |-> "POST", body |-> "note1"],
    [url |-> "/api/v1/notes",   method |-> "POST", body |-> "note2"],
    [url |-> "/api/v1/profile", method |-> "PUT",  body |-> "name"] }

Outboxes == UNION { [1..n -> OutboxItems] : n \in 0..MaxOutbox }

\* What fetch(item.url, {...}) in syncDataItem can settle with.
SyncOutcomes == { Response(200, "basic", "saved"), Response(500, "basic", "error"), Rejected }

\* getOfflineData() with durable storage supplied: the queued items in
\* enqueue order.  (The reference function returns [].)
GetOfflineData == outbox

\* clearOfflineData() with durable storage supplied: the outbox is emptied.
ClearOfflineData == << >>

\* evt.tag of the sync events the platform dispatches.
SyncTags == {"background-sync", "other-tag"}

\* 'sync' event: only the tag 'background-sync' starts backgroundSync().
SyncEvent(tag) ==
  /\ sync.pc \in {"idle", "done"}
  /\ sync' = IF tag = "background-sync" THEN [pc |-> "get"] ELSE sync
  /\ UNCHANGED <<outbox, cacheVars, clickVars, rateVars>>

\* A variant that posts SYNC_COMPLETE for an empty outbox too.
SyncGetNotifyEmpty ==
  /\ sync.pc = "get"
  /\ sync' = [pc |-> IF Len(GetOfflineData) > 0 THEN "replay" ELSE "notify",
              items |-> GetOfflineData, issued |-> << >>,
              sent |-> 0, failedAt |-> 0, notified |-> FALSE, settled |-> "pending"]
  /\ UNCHANGED <<outbox, cacheVars, clickVars, rateVars>>

\* await getOfflineData(): with nothing queued the function returns.
SyncGet ==
  /\ sync.pc = "get"
  /\ sync' = [pc |-> IF Len(GetOfflineData) > 0 THEN "replay" ELSE "done",
              items |-> GetOfflineData, issued |-> << >>,
              sent |-> 0, failedAt |-> 0, notified |-> FALSE,
              settled |-> IF Len(GetOfflineData) > 0 THEN "pending" ELSE "fulfilled"]
  /\ UNCHANGED <<outbox, cacheVars, clickVars, rateVars>>

\* A variant that replays the newest item first.
NextItemNewest(s) == s.items[Len(s.items) - s.sent]

\* for (const item of offlineData): the item the loop takes next, in the
\* order of the array.
NextItem(s) == s.items[s.sent + 1]

\* A variant whose loop goes on after a failed item.
SyncReplayContinue ==
  /\ sync.pc = "replay"
  /\ \E out \in SyncOutcomes :
       sync' = [sync EXCEPT
                  !.issued = Append(@, sync.items[sync.sent + 1]),
                  !.sent = @ + 1,
                  !.failedAt = IF (out = Rejected \/ ~Ok(out)) /\ @ = 0 THEN sync.sent + 1 ELSE @,
                  !.pc = IF sync.sent + 1 = Len(sync.items) THEN "clear" ELSE "replay"]
  /\ UNCHANGED <<outbox, cacheVars, clickVars, rateVars>>

\* await syncDataItem(item) for the next item: its fetch is issued and
\* settles.  A rejected fetch or a response that is not ok throws; the
\* throw leaves the loop and is caught by backgroundSync's catch, which
\* logs it: the function's promise is fulfilled.
SyncReplay ==
  /\ sync.pc = "replay"
  /\ \E out \in SyncOutcomes :
       sync' = IF out # Rejected /\ Ok(out)
                 THEN [sync EXCEPT !.issued = Append(@, NextItem(sync)),
                                   !.sent = @ + 1,
                                   !.pc = IF sync.sent + 1 = Len(sync.items)
                                            THEN "clear" ELSE "replay"]
                 ELSE [sync EXCEPT !.issued = Append(@, NextItem(sync)),
                                   !.sent = @ + 1, !.failedAt = sync.sent + 1,
                                   !.pc = "done", !.settled = "fulfilled"]
  /\ UNCHANGED <<outbox, cacheVars, clickVars, rateVars>>

\* await clearOfflineData()
SyncClear ==
  /\ sync.pc = "clear"
  /\ outbox' = ClearOfflineData
  /\ sync' = [sync EXCEPT !.pc = "notify"]
  /\ UNCHANGED <<cacheVars, clickVars, rateVars>>

\* await notifyClients({type: 'SYNC_COMPLETE', ...}); the function returns.
SyncNotify ==
  /\ sync.pc = "notify"
  /\ sync' = [sync EXCEPT !.pc = "done", !.notified = TRUE, !.settled = "fulfilled"]
  /\ UNCHANGED <<outbox, cacheVars, clickVars, rateVars>>

\* ---------------------------------------------------- notificationclick
\* The pages of the app a window client can show; WindowClient.url is the
\* page's full URL.
AppPages == { Origin \o "/", Origin \o "/index.html", Origin \o "/account.html" }

WindowLists == UNION { [1..n -> AppPages] : n \in 0..MaxWindows }

\* 'notificationclick' event: the notification is closed and evt.action
\* picks the branch ('' is a click on the notification's body).
NotificationClick(action) ==
  /\ click.pc \in {"idle", "done"}
  /\ Len(windows) < MaxWindows
  /\ click' = [pc |-> CASE action = "view" -> "matchAll"
                        [] action = "dismiss" -> "done"
                        [] OTHER -> "open",
               action |-> action, clientsBefore |-> Len(windows), effect |-> "none"]
  /\ UNCHANGED <<windows, focused, cacheVars, syncVars, rateVars>>

\* 'view': clients.matchAll({type: 'window'}) resolves; clientsArr.some
\* focuses the first window whose url equals self.location.origin, and
\* clients.openWindow('/') is called when there was none.
ClickMatchAll ==
  LET hits == { i \in 1..Len(windows) : windows[i] = Origin } IN
  /\ click.pc = "matchAll"
  /\ IF hits # {}
       THEN /\ focused' = CHOOSE i \in hits : \A j \in hits : i <= j
            /\ click' = [click EXCEPT !.pc = "done", !.effect = "focused"]
       ELSE /\ focused' = focused
            /\ click' = [click EXCEPT !.pc = "open"]
  /\ UNCHANGED <<windows, cacheVars, syncVars, rateVars>>

\* clients.openWindow('/') resolves: a new window of the app, focused.
ClickOpenWindow ==
  /\ click.pc = "open"
  /\ windows' = Append(windows, Resolve("/"))
  /\ focused' = Len(windows) + 1
  /\ click' = [click EXCEPT !.pc = "done", !.effect = "opened"]
  /\ UNCHANGED <<cacheVars, syncVars, rateVars>>

\* ---------------------------------------------------------- rate limiter
\* The page's clock advances.
Tick ==
  /\ now < MaxClock
  /\ now' = now + 1
  /\ UNCHANGED <<rateLimitMap, rateLimit, cacheVars, syncVars, clickVars>>

\* A variant that lets one attempt more through.
LockedOutOffByOne(record) == record.attempts > maxAttempts

\* record.attempts >= this.maxAttempts
LockedOut(record) == record.attempts >= maxAttempts

\* A variant in which a denied call counts as the latest attempt.
DeniedTouching(record, t) == [record EXCEPT !.lastAttempt = t]

\* The record a denied call leaves: the call returns before any write.
Denied(record, t) == record

\* Math.ceil((lockoutTime - (now - record.lastAttempt)) / 1000 / 60), minutes
TimeRemaining(record, t) == 5 * (lockoutTime - (t - record.lastAttempt))

\* checkRateLimit(identifier, action): the first call for a key and the
\* first one later than lockoutTime after the last counted one start a new
\* record; a call for a locked-out key is denied; any other is counted.
CheckRateLimit(identifier, action) ==
  LET key == RateKey(identifier, action)
      record == rateLimitMap[key]
      fresh == [attempts |-> 1, lastAttempt |-> now]
  IN
  /\ IF record = NoRecord
       THEN /\ rateLimitMap' = [rateLimitMap EXCEPT ![key] = fresh]
            /\ rateLimit' = [allowed |-> TRUE, attemptsRemaining |-> maxAttempts - 1]
       ELSE IF now - record.lastAttempt > lockoutTime
         THEN /\ rateLimitMap' = [rateLimitMap EXCEPT ![key] = fresh]
              /\ rateLimit' = [allowed |-> TRUE, attemptsRemaining |-> maxAttempts - 1]
         ELSE IF LockedOut(record)
           THEN /\ rateLimitMap' = [rateLimitMap EXCEPT ![key] = Denied(record, now)]
                /\ rateLimit' = [allowed |-> FALSE, attemptsRemaining |-> 0,
                                 timeRemaining |-> TimeRemaining(record, now)]
           ELSE /\ rateLimitMap' = [rateLimitMap EXCEPT ![key] =
                                      [attempts |-> record.attempts + 1, lastAttempt |-> now]]
                /\ rateLimit' = [allowed |-> TRUE,
                                 attemptsRemaining |-> maxAttempts - (record.attempts + 1)]
  /\ UNCHANGED <<now, cacheVars, syncVars, clickVars>>

\* login(email, password), the e-mail sanitized and valid: the rate limit
\* is checked first and a denied attempt goes no further.
Login(sanitizedEmail) == CheckRateLimit(sanitizedEmail, "login")

Next ==
  \/ InstallEvent \/ InstallOpen \/ InstallAddAll
  \/ ActivateEvent \/ ActivateKeys \/ ActivateDelete \/ ActivateDone
  \/ \E req \in Requests : FetchEvent(req)
  \/ FetchOpen
  \/ ApiFetch \/ ApiFallback
  \/ StaticMatch \/ StaticFetch \/ ShellMatch
  \/ FetchEnd
  \/ \E p \in puts : PutComplete(p)
  \/ MessageSkipWaiting
  \/ MessageUpdateCache \/ UpdateOpen \/ UpdateAddAll
  \/ MessageClearCache \/ ClearKeys \/ ClearDelete \/ ClearDone

Spec == Init /\ [][Next]_vars

\* The active worker: installed with the manifest fetched, activated, no
\* chain pending.
ActiveWorker ==
  /\ state = "activated"
  /\ skipWaitingFlag = TRUE
  /\ caches = [n \in CacheNames |-> IF n = CACHE_NAME THEN Home(n) ELSE 0]
  /\ store = [i \in CacheIds |->
                IF i = Home(CACHE_NAME)
                  THEN [k \in Keys |-> IF k \in ManifestKeys
                                         THEN Response(200, "basic", "body1")
                                         ELSE Undefined]
                  ELSE EmptyCache]
  /\ install = [pc |-> "done", failed |-> FALSE]
  /\ activate = [pc |-> "done"]
  /\ handler = IdleHandler
  /\ puts = {}
  /\ update = IdleTask
  /\ clear = IdleTask

\* Background sync of the active worker, over every outbox up to MaxOutbox.
SyncInit ==
  /\ ActiveWorker
  /\ outbox \in Outboxes
  /\ sync = IdleTask
  /\ windows = << >>
  /\ focused = 0
  /\ click = IdleTask
  /\ PageLoaded

SyncNext ==
  \/ \E tag \in SyncTags : SyncEvent(tag)
  \/ SyncGet \/ SyncReplay \/ SyncClear \/ SyncNotify

SyncSpec == SyncInit /\ [][SyncNext]_vars

\* Notification clicks on the active worker, over every list of open
\* windows up to MaxWindows.
ClickInit ==
  /\ ActiveWorker
  /\ outbox = << >>
  /\ sync = IdleTask
  /\ windows \in WindowLists
  /\ focused \in 0..Len(windows)
  /\ click = IdleTask
  /\ PageLoaded

ClickNext ==
  \/ \E action \in {"view", "dismiss", ""} : NotificationClick(action)
  \/ ClickMatchAll \/ ClickOpenWindow

ClickSpec == ClickInit /\ [][ClickNext]_vars

\* The active worker after a CLEAR_CACHE: no tier is left.
ClearedWorker ==
  /\ state = "activated"
  /\ skipWaitingFlag = TRUE
  /\ caches = [n \in CacheNames |-> 0]
  /\ store = [i \in CacheIds |-> EmptyCache]
  /\ install = [pc |-> "done", failed |-> FALSE]
  /\ activate = [pc |-> "done"]
  /\ handler = IdleHandler
  /\ puts = {}
  /\ update = IdleTask
  /\ clear = [pc |-> "done"]

\* The message and sync events of the active worker, whatever their data
\* and tag; the outbox is the reference worker's, which is empty.
EventInit ==
  /\ ActiveWorker
  /\ outbox = << >>
  /\ sync = IdleTask
  /\ windows = << >>
  /\ focused = 0
  /\ click = IdleTask
  /\ PageLoaded

EventNext ==
  \/ \E data \in MessageData : MessageEvent(data)
  \/ UpdateOpen \/ UpdateAddAll
  \/ ClearKeys \/ ClearDelete \/ ClearDone
  \/ \E tag \in SyncTags : SyncEvent(tag)
  \/ SyncGet

EventSpec == EventInit /\ [][EventNext]_vars

\* Login attempts on a page of the active worker, as time passes.
RateInit ==
  /\ ActiveWorker
  /\ outbox = << >>
  /\ sync = IdleTask
  /\ windows = << >>
  /\ focused = 0
  /\ click = IdleTask
  /\ PageLoaded

RateNext ==
  \/ Tick
  \/ \E email \in Emails : Login(email)

RateSpec == RateInit /\ [][RateNext]_vars

\* Fetch events of the active worker taken while the writes of earlier
\* ones are pending: up to MaxRace chains at once.
RaceInit ==
  /\ ActiveWorker \/ ClearedWorker
  /\ outbox = << >>
  /\ sync = IdleTask
  /\ windows = << >>
  /\ focused = 0
  /\ click = IdleTask
  /\ PageLoaded

RaceNext ==
  \/ \E req \in Requests : FetchEventWithin(req, MaxRace)
  \/ FetchOpen
  \/ ApiFetch \/ ApiFallback
  \/ StaticMatch \/ StaticFetch \/ ShellMatch
  \/ FetchEnd
  \/ \E p \in puts : PutComplete(p)

RaceSpec == RaceInit /\ [][RaceNext]_vars

\* --------------------------------------------------------------- claims
\* The stored responses cache.addAll or cache.put can have left under
\* '/index.html': the app-shell document.
ShellDocuments == { r \in NetResponses(Resolve("/index.html")) : Ok(r) }

\* C1 (static cache-first): when the static branch's lookup of a non-API
\* request finds the exact request in the Static Tier, the handler responds
\* at that step with the stored response, unchanged, and no network call
\* is issued for it.
C1_StaticCacheFirst ==
  [][ ( /\ handler.pc = "match"
        /\ handler'.pc # "match"
        /\ handler.req.method = "GET"
        /\ store[handler.cache][handler.req.url] # Undefined )
      => ( /\ handler'.pc = "responded"
           /\ handler'.result = store[handler.cache][handler.req.url]
           /\ handler'.net = "none" ) ]_vars

\* C1's case: a non-API request has been answered from the Static Tier.
C1_Witness ==
  /\ handler.pc = "responded"
  /\ ~IsApi(handler.req)
  /\ handler.hit
  /\ handler.net = "none"
  /\ handler.result \in NetResponses(handler.req.url)

\* C2 (API network-first): a 200 network response to a request whose URL
\* contains '/api/' is returned and put into the Data Tier under that URL,
\* and a fetch of that URL whose network call is rejected returns the
\* response the Data Tier holds under it.
C2_ApiNetworkFirst ==
  [][ /\ ( /\ handler.pc = "fetch"
           /\ IsApi(handler.req)
           /\ handler'.pc = "responded"
           /\ handler'.result.status = 200 )
         => \E p \in puts' :
              /\ p.key = handler.req.url
              /\ p.resp = handler'.result
              /\ p.cache = handler.cache
      /\ ( /\ handler.pc = "fallback"
           /\ handler'.pc = "responded"
           /\ store[handler.cache][handler.req.url] # Undefined )
         => handler'.result = store[handler.cache][handler.req.url] ]_vars

\* C3 (no poisoning): neither the Static Tier nor the Data Tier ever holds
\* a response whose status is not 200 or whose type is opaque.
C3_NoPoisoning ==
  \A n \in {CACHE_NAME, DATA_CACHE_NAME} :
    caches[n] # 0 =>
      \A k \in Keys :
        store[caches[n]][k] # Undefined =>
          /\ store[caches[n]][k].status = 200
          /\ store[caches[n]][k].type # "opaque"

\* C4 (version eviction): when the activate step completes, every tier name
\* that existed before it and is neither the current Static Tier name nor
\* the current Data Tier name is absent, and no step of the activate
\* handler unbinds a current name.
C4_VersionEviction ==
  [][ /\ ( activate.pc = "delete" /\ activate'.pc = "done" )
         => \A n \in activate.keyList :
              (n # "campusysv2-v1.0.0" /\ n # "campusysv2-data-v1.0.0")
                => caches'[n] = 0
      /\ ( activate' # activate )
         => /\ caches'["campusysv2-v1.0.0"] = caches["campusysv2-v1.0.0"]
            /\ caches'["campusysv2-data-v1.0.0"] = caches["campusysv2-data-v1.0.0"] ]_vars

\* C4's case: activation has deleted both tiers of the earlier version and
\* the current Static Tier is still there.
C4_Witness ==
  /\ activate.pc = "delete"
  /\ activate.todo = {}
  /\ OldCacheNames \subseteq activate.keyList
  /\ \A n \in OldCacheNames : caches[n] = 0
  /\ caches[CACHE_NAME] # 0

\* C5 (navigation fallback): a non-API request with destination 'document'
\* that missed the Static Tier and whose network fetch is rejected goes on
\* to the lookup of '/index.html', and the response served is what the
\* Static Tier's Cache object holds under '/index.html'.
C5_NavigationFallback ==
  [][ /\ ( /\ handler.pc = "fetch"
           /\ ~IsApi(handler.req)
           /\ handler.req.destination = "document"
           /\ handler'.pc # "fetch"
           /\ handler'.net = "rejected" )
         => handler'.pc = "shell"
      /\ ( handler.pc = "shell" /\ handler'.pc # "shell" )
         => /\ handler'.pc = "responded"
            /\ handler'.result = store[handler.cache][Origin \o "/index.html"] ]_vars

\* C5's case: an offline navigation to a path that was never cached has
\* been answered with the stored '/index.html' response.
C5_Witness ==
  /\ handler.pc = "responded"
  /\ handler.req.destination = "document"
  /\ handler.req.url # Origin \o "/index.html"
  /\ handler.net = "rejected"
  /\ handler.result \in ShellDocuments
  /\ store[handler.cache][handler.req.url] = Undefined
  /\ handler.result = store[handler.cache][Origin \o "/index.html"]

\* C6 (non-navigation fallback): a non-API request whose destination is not
\* 'document', that missed the Static Tier and whose network fetch was
\* rejected, is answered with a response of status 503 and the non-empty
\* reason phrase 'Service Unavailable'.
C6_NonNavigationFallback ==
  ( /\ handler.pc = "responded"
    /\ ~IsApi(handler.req)
    /\ ~handler.hit
    /\ handler.net = "rejected"
    /\ handler.req.destination # "document" )
  => /\ handler.result # Undefined
     /\ handler.result.status = 503
     /\ handler.result.statusText = "Service Unavailable"
     /\ Len(handler.result.statusText) > 0

\* C6's case: a style sheet that is not cached has been asked for offline.
C6_Witness ==
  /\ handler.pc = "responded"
  /\ ~IsApi(handler.req)
  /\ handler.req.destination = "style"
  /\ handler.net = "rejected"
  /\ handler.result.status = 503

\* C7 (always answered): every intercepted request, on either path and for
\* every network outcome and cache content, is answered with a response,
\* never with an absent (undefined) one.
C7_AlwaysAnswered ==
  handler.pc = "responded" => handler.result # Undefined

\* C8 as stated (offline navigation): in every state after a successful
\* install, whatever fetches, activations and messages came in between, a
\* navigation request whose network fetch is rejected is answered with the
\* app-shell document.
C8_OfflineNavigation ==
  ( /\ install.pc = "done"
    /\ ~install.failed
    /\ handler.pc = "responded"
    /\ handler.req.destination = "document"
    /\ handler.net = "rejected" )
  => handler.result \in ShellDocuments

\* C8 amended: the same, in the states in which no CLEAR_CACHE message has
\* been handled, for a non-API navigation request.
C8_OfflineNavigationUncleared ==
  ( /\ install.pc = "done"
    /\ ~install.failed
    /\ clear.pc = "idle"
    /\ handler.pc = "responded"
    /\ ~IsApi(handler.req)
    /\ handler.req.destination = "document"
    /\ handler.net = "rejected" )
  => handler.result \in ShellDocuments

\* C8's case: after a successful install and with no CLEAR_CACHE handled,
\* an offline navigation has been answered from the fallback.
C8_Witness ==
  /\ install.pc = "done"
  /\ ~install.failed
  /\ clear.pc = "idle"
  /\ handler.pc = "responded"
  /\ handler.req.destination = "document"
  /\ handler.net = "rejected"
  /\ ~handler.hit
  /\ handler.result \in ShellDocuments

\* C9 (install all-or-nothing): when the fetch of a manifest URL failed
\* during install, the install failed as a whole: the version is redundant,
\* never installed or active, and the Static Tier holds no manifest entry.
C9_InstallAllOrNothing ==
  ( install.pc = "done" /\ install.failed )
  => /\ state = "redundant"
     /\ activate.pc = "idle"
     /\ caches[CACHE_NAME] # 0 =>
          \A k \in ManifestKeys : store[caches[CACHE_NAME]][k] = Undefined

\* C9's case: an install in which a manifest fetch failed has settled.
C9_Witness ==
  /\ install.pc = "done"
  /\ install.failed
  /\ state = "redundant"
  /\ caches[CACHE_NAME] # 0

\* C10 (manifest pre-cached): at the step that completes an install
\* successfully, every URL of the Static Asset Manifest has an entry in the
\* Static Tier.
C10_ManifestCached ==
  [][ ( install.pc = "addAll" /\ state' = "installed" )
      => /\ caches'[CACHE_NAME] # 0
         /\ \A i \in 1..Len(FILES_TO_CACHE) :
              store'[caches'[CACHE_NAME]][Origin \o FILES_TO_CACHE[i]] # Undefined ]_vars

\* C10's case: the install has succeeded and the manifest is in the tier.
C10_Witness ==
  /\ state = "installed"
  /\ install.pc = "done"
  /\ ~install.failed
  /\ \A k \in ManifestKeys : store[caches[CACHE_NAME]][k] \in NetResponses(k)

C13_ClearCache ==
  [][ /\ ( clear.pc = "keys" /\ clear'.pc = "delete" )
         => clear'.todo = { n \in CacheNames : caches[n] # 0 }
      /\ ( clear.pc = "delete" /\ clear'.pc = "delete" )
         => \A n \in clear.todo \ clear'.todo : caches'[n] = 0
      /\ ( clear.pc = "delete" /\ clear'.pc = "done" )
         => clear.todo = {} ]_vars

\* C13's case: after a successful install, which created the Static Tier,
\* a CLEAR_CACHE has been handled and no tier is left.
C13_Witness ==
  /\ install.pc = "done"
  /\ ~install.failed
  /\ clear.pc = "done"
  /\ \A n \in CacheNames : caches[n] = 0

\* What handling one command leaves, the network answering the manifest
\* fetches with out: UPDATE_CACHE on the tiers' contents, CLEAR_CACHE on
\* the names bound.
AfterUpdate(st, out) ==
  IF AddAllOk(out) THEN AddAll(st, OpenId(CACHE_NAME), out) ELSE st
AfterClear(c) ==
  [n \in CacheNames |-> IF n \in ClearTargets(KeysOf(c)) THEN 0 ELSE c[n]]

C16_DefaultLikeView ==
  ( click.pc = "done" /\ click.action = "" ) =>
    IF click.clientsBefore > 0
      THEN click.effect = "focused" /\ Len(windows) = click.clientsBefore
      ELSE click.effect = "opened" /\ windows = << Origin \o "/" >>

\* The request URL is an entry of the Static Asset Manifest, or starts
\* with an allow-listed external origin prefix.
InManifest(url) ==
  \E i \in 1..Len(ALL_FILES_TO_CACHE) : url = Origin \o ALL_FILES_TO_CACHE[i]
AllowListed(url) ==
  \E i \in 1..Len(API_CACHE_URLS) :
    /\ Len(url) >= Len(API_CACHE_URLS[i])
    /\ SubSeq(url, 1, Len(API_CACHE_URLS[i])) = API_CACHE_URLS[i]

\* C17 (static-path cacheability): a response is written into the Static
\* Tier from the static path only for a request URL that is a manifest
\* entry or starts with an allow-listed prefix; for any other URL no write
\* is started.
C17_Cacheability ==
  \A p \in puts :
    ~Includes(p.key, "/api/") => (InManifest(p.key) \/ AllowListed(p.key))

\* C18 (allow-listed origins are cached): when a request to an allow-listed
\* external URL has been answered from the network with status 200 on the
\* static path, the response is being written, or has been written, into
\* the Static Tier under that request.
C18_AllowListedCached ==
  ( /\ handler.pc = "responded"
    /\ AllowListed(handler.req.url)
    /\ handler.net = "resolved"
    /\ handler.result.status = 200 )
  => \/ \E p \in puts : p.key = handler.req.url /\ p.resp = handler.result
     \/ store[handler.cache][handler.req.url] # Undefined

\* C19 (API path returns the live response): on the API path the Data Tier
\* is looked up only after the network call was rejected, and when the
\* network call resolved the caller has what the network answered,
\* whatever its status.
C19_ApiLive ==
  ( handler.pc # "idle" /\ IsApi(handler.req) ) =>
    /\ handler.pc = "fallback" => handler.net = "rejected"
    /\ handler.pc = "responded" => handler.net \in {"resolved", "rejected"}
    /\ ( handler.pc = "responded" /\ handler.net = "resolved" )
       => handler.result \in NetResponses(handler.req.url)

\* C19's case: the network answered 404 for an API URL the Data Tier holds
\* a response for, and the caller has the 404.
C19_Witness ==
  /\ handler.pc = "responded"
  /\ IsApi(handler.req)
  /\ handler.net = "resolved"
  /\ handler.result.status = 404
  /\ store[handler.cache][handler.req.url] # Undefined

\* C20 (Data Tier keyed by URL): a 200 response to a non-GET API request is
\* put under the request's URL, a completed put replaces what the Data Tier
\* held under that URL, and a GET of the URL whose network call is
\* rejected is served what the Data Tier holds under the URL.
C20_KeyedByUrl ==
  [][ /\ ( /\ handler.pc = "fetch"
           /\ IsApi(handler.req)
           /\ handler.req.method # "GET"
           /\ handler'.pc = "responded"
           /\ handler'.result.status = 200 )
         => \E p \in puts' :
              /\ p.cache = handler.cache
              /\ p.key = handler.req.url
              /\ p.resp = handler'.result
      /\ \A p \in puts \ puts' :
           ( p.cache = caches[DATA_CACHE_NAME] /\ p.cache = caches'[DATA_CACHE_NAME] )
             => store'[p.cache][p.key] = p.resp
      /\ ( /\ handler.pc = "fallback"
           /\ handler.req.method = "GET"
           /\ handler'.pc = "responded" )
         => handler'.result = store[handler.cache][handler.req.url] ]_vars

\* C20's case: the Data Tier holds a response under the URL and the 200
\* response to a POST of that URL, a different one, is being put over it.
C20_Witness ==
  /\ handler.pc = "responded"
  /\ IsApi(handler.req)
  /\ handler.req.method = "POST"
  /\ \E p \in puts :
       /\ p.key = handler.req.url
       /\ p.resp = handler.result
       /\ p.cache = caches[DATA_CACHE_NAME]
       /\ store[p.cache][p.key] # Undefined
       /\ store[p.cache][p.key] # p.resp

\* C21 (last write wins): a cache.put that completes leaves under its URL
\* exactly its own response, whole, whatever the tier held there and
\* whichever other writes of that URL are pending, and touches no other
\* entry; an entry changes by nothing but the completion of a put.
C21_LastWriteWins ==
  [][ /\ \A p \in puts \ puts' :
           /\ store'[p.cache][p.key] = p.resp
           /\ p.resp \in NetResponses(p.key)
           /\ \A k \in Keys \ {p.key} : store'[p.cache][k] = store[p.cache][k]
      /\ \A c \in CacheIds : \A k \in Keys :
           store'[c][k] # store[c][k]
             => \E p \in puts \ puts' :
                  p.cache = c /\ p.key = k /\ store'[c][k] = p.resp ]_vars

\* C21's case: two writes of the same URL into the same tier, with
\* different responses, are pending at once over an entry that an earlier
\* write left.
C21_Witness ==
  \E p \in puts : \E q \in puts :
    /\ p.cache = q.cache
    /\ p.key = q.key
    /\ p.resp # q.resp
    /\ \E n \in {CACHE_NAME, DATA_CACHE_NAME} : caches[n] = p.cache
    /\ store[p.cache][p.key] \in {p.resp, q.resp}

\* C22 (writes complete before the event is handled): when the response
\* has been delivered no write that the handling started is still pending,
\* and a fetch of an API URL whose network call is rejected while a write
\* of that URL is pending is served an entry.
C22_WritesSettled ==
  /\ handler.pc = "responded"
       => \A p \in puts : ~(p.key = handler.req.url /\ p.resp = handler.result)
  /\ ( /\ handler.pc = "responded"
        /\ IsApi(handler.req)
        /\ handler.req.method = "GET"
        /\ handler.net = "rejected"
        /\ \E p \in puts : p.key = handler.req.url /\ p.cache = handler.cache )
       => handler.result # Undefined

\* C23 (step ordering): within one fetch handling the Data Tier is looked
\* up only at the step after the network call was issued and rejected, the
\* static path issues its network call only at the step at which the
\* Static Tier lookup resolved with a miss, and no lookup is pending while
\* a network call is.
C23_StepOrdering ==
  [][ /\ ( handler'.pc = "fallback" /\ handler.pc # "fallback" )
         => /\ handler.pc = "fetch"
            /\ handler.net = "pending"
            /\ handler'.net = "rejected"
      /\ ( /\ handler'.pc # "idle"
           /\ ~IsApi(handler'.req)
           /\ handler'.net = "pending"
           /\ handler.net # "pending" )
         => /\ handler.pc = "match"
            /\ Match(handler.cache, handler.req) = Undefined
      /\ handler'.pc \in {"match", "shell", "fallback"} => handler'.net # "pending"
      /\ handler'.pc = "fetch" => handler'.net = "pending" ]_vars

\* C23's case: the Static Tier lookup of a request has missed and its
\* network call is now pending.
C23_Witness ==
  /\ handler.pc = "fetch"
  /\ ~IsApi(handler.req)
  /\ handler.req.method = "GET"
  /\ handler.net = "pending"
  /\ store[handler.cache][handler.req.url] = Undefined

C25_TierIsolation ==
  /\ handler.pc # "idle" =>
       /\ handler.tier = IF Includes(handler.req.url, "/api/")
                            THEN "campusysv2-data-v1.0.0" ELSE "campusysv2-v1.0.0"
       /\ handler.cache \in 1..4 => handler.cache = Home(handler.tier)
  /\ \A p \in puts :
       p.cache \in 1..4 =>
         p.cache = Home(IF Includes(p.key, "/api/")
                          THEN "campusysv2-data-v1.0.0" ELSE "campusysv2-v1.0.0")
  /\ \A k \in Keys :
       /\ store[Home("campusysv2-v1.0.0")][k] # Undefined => ~Includes(k, "/api/")
       /\ store[Home("campusysv2-data-v1.0.0")][k] # Undefined => Includes(k, "/api/")

\* C25's case: with the manifest in the Static Tier, an API request whose
\* network call was rejected has been answered from the Data Tier.
C25_Witness ==
  /\ handler.pc = "responded"
  /\ IsApi(handler.req)
  /\ handler.net = "rejected"
  /\ handler.result # Undefined
  /\ handler.cache = caches[DATA_CACHE_NAME]
  /\ caches[CACHE_NAME] # 0
  /\ store[caches[CACHE_NAME]][Origin \o "/index.html"] # Undefined

\* C26 (activation frame): no step of the activate handler changes which
\* Cache object the current Static Tier name or Data Tier name is bound
\* to, or any entry of those objects, and none binds a name that was
\* unbound.
C26_ActivationFrame ==
  [][ activate' # activate
      => /\ \A n \in {CACHE_NAME, DATA_CACHE_NAME} :
              /\ caches'[n] = caches[n]
              /\ caches[n] # 0 => store'[caches[n]] = store[caches[n]]
         /\ \A n \in CacheNames : caches[n] = 0 => caches'[n] = 0 ]_vars

\* C26's case: the activate handler has deleted the tiers of the earlier
\* version and the Static Tier holds the manifest that install stored.
C26_Witness ==
  /\ state = "activating"
  /\ activate.pc = "delete"
  /\ activate.todo = {}
  /\ activate.keyList = OldCacheNames \cup {CACHE_NAME}
  /\ \A k \in ManifestKeys : store[caches[CACHE_NAME]][k] \in NetResponses(k)
  /\ caches[DATA_CACHE_NAME] = 0

\* C27 (other messages and tags are ignored): the handling of a message
\* with no data, with no type or with a type other than SKIP_WAITING,
\* UPDATE_CACHE and CLEAR_CACHE leaves the lifecycle state, the tiers and
\* every pending chain as they were, and the handling of a sync event
\* whose tag is not 'background-sync' leaves the outbox and the replay as
\* they were.
C27_OthersIgnored ==
  [][ /\ \A data \in MessageData :
           ( /\ \/ data = NoData
                \/ "type" \notin DOMAIN data
                \/ data.type \notin {"SKIP_WAITING", "UPDATE_CACHE", "CLEAR_CACHE"}
             /\ MessageEvent(data) )
           => UNCHANGED cacheVars
      /\ \A tag \in SyncTags :
           ( tag # "background-sync" /\ SyncEvent(tag) ) => UNCHANGED syncVars ]_vars

\* C27's case: the active worker, after an UPDATE_CACHE refreshed the
\* shell and a background sync ran, with no chain pending, takes a message
\* of another type and a sync event of another tag; each of the three
\* commands would change something there.
C27_Witness ==
  /\ state = "activated"
  /\ InFlight = 0
  /\ clear.pc = "idle"
  /\ sync.pc = "done"
  /\ caches[CACHE_NAME] # 0
  /\ store[caches[CACHE_NAME]][Origin \o "/index.html"] = Response(200, "basic", "body2")
  /\ ENABLED MessageEvent([type |-> "PING"])
  /\ ENABLED MessageEvent(NoData)
  /\ ENABLED SyncEvent("other-tag")

\* C29 (rate limiter cap): a checkRateLimit call for a key whose last
\* allowed call is at most lockoutTime (15 minutes) back is allowed exactly
\* when fewer than 5 calls have been counted for the key, and then counts
\* one more; denied, it returns attemptsRemaining 0.  The first call for a
\* key is allowed and counted as 1; a stored count is always within 1..5.
\* So of the calls of such a sequence exactly the first 5 are allowed.
C29_RateCap ==
  [][ /\ \A i \in Emails : \A a \in RateActions :
           LET k == RateKey(i, a)
               r == rateLimitMap[k]
           IN  CheckRateLimit(i, a) =>
                 /\ r = NoRecord =>
                      /\ rateLimit'.allowed
                      /\ rateLimit'.attemptsRemaining = 4
                      /\ rateLimitMap'[k].attempts = 1
                 /\ ( r # NoRecord /\ now - r.lastAttempt <= 3 ) =>
                      /\ rateLimit'.allowed = (r.attempts < 5)
                      /\ rateLimit'.allowed =>
                           /\ rateLimitMap'[k].attempts = r.attempts + 1
                           /\ rateLimitMap'[k].lastAttempt = now
                           /\ rateLimit'.attemptsRemaining = 5 - (r.attempts + 1)
                      /\ ~rateLimit'.allowed => rateLimit'.attemptsRemaining = 0
      /\ \A k \in RateKeys :
           rateLimitMap'[k] # NoRecord => rateLimitMap'[k].attempts \in 1..5 ]_vars

\* C29's case: five attempts for a key have been counted and a sixth, made
\* later but within the lockout time, has been denied.
C29_Witness ==
  /\ rateLimit # NoResult
  /\ ~rateLimit.allowed
  /\ rateLimit.attemptsRemaining = 0
  /\ \E k \in RateKeys :
       /\ rateLimitMap[k] # NoRecord
       /\ rateLimitMap[k].attempts = 5
       /\ now > rateLimitMap[k].lastAttempt
       /\ now - rateLimitMap[k].lastAttempt <= 3
       /\ rateLimit.timeRemaining = 5 * (3 - (now - rateLimitMap[k].lastAttempt))

\* C30 (lockout expiry): a denied checkRateLimit call changes no record;
\* a call made more than lockoutTime (15 minutes) after the key's last
\* allowed call is allowed and leaves the record at one attempt, made now;
\* and a call changes the record of no other key.
C30_LockoutExpiry ==
  [][ \A i \in Emails : \A a \in RateActions :
        LET k == RateKey(i, a)
            r == rateLimitMap[k]
        IN  CheckRateLimit(i, a) =>
              /\ ~rateLimit'.allowed => rateLimitMap' = rateLimitMap
              /\ ( r # NoRecord /\ now - r.lastAttempt > 3 ) =>
                   /\ rateLimit'.allowed
                   /\ rateLimit'.attemptsRemaining = 4
                   /\ rateLimitMap'[k] = [attempts |-> 1, lastAttempt |-> now]
              /\ \A other \in RateKeys \ {k} :
                   rateLimitMap'[other] = rateLimitMap[other] ]_vars

\* C30's case: one key is locked out since time 0 and was denied on the
\* way, its record as it was; the other key, whose earlier record was at
\* least as old, has been started anew by a call after the lockout time.
C30_Witness ==
  /\ now > 3
  /\ rateLimit # NoResult
  /\ rateLimit.allowed
  /\ rateLimit.attemptsRemaining = 4
  /\ rateLimitMap["ann@campus.example_login"] = [attempts |-> 5, lastAttempt |-> 0]
  /\ rateLimitMap["bob@campus.example_login"] = [attempts |-> 1, lastAttempt |-> now]
====
